---- MODULE Spec2Model ----
(***************************************************************************)
(* A model of sns_classes/classes.py: SnsWESAnalysisOutput (the analysis   *)
(* context: registry resolution, validation, sample discovery) and         *)
(* SnsAnalysisSample (the per-sample view and its output lookup).          *)
(*                                                                         *)
(* Names, lines and cells are strings; Spelling gives each string's        *)
(* characters, so that glob matching and substring search are computed.    *)
(* A path is a sequence of names; None is the empty sequence.              *)
(***************************************************************************)
EXTENDS Integers, Sequences, FiniteSets, TLC

VARIABLES disk, analysis_output_index, pc, dirs, files, static_files,
          is_valid, validations, samples, logged, ret

vars == <<disk, analysis_output_index, pc, dirs, files, static_files,
          is_valid, validations, samples, logged, ret>>

\* ------------------------------------------------------------------ bounds

MaxLogLines == 2
MaxSummaryRows == 2
MaxManifestRows == 3

\* ------------------------------------------------------------- text values

None == <<>>
Unset == <<>>

Range(s) == {s[i] : i \in 1..Len(s)}

SeqsUpTo(S, n) == UNION {[1..k -> S] : k \in 0..n}

\* the schema's reserved key, the directory names and the schema keys used
PARENT == "_parent"
LOGS_QSUB == "logs-qsub"
BAM_DD == "BAM-DD"
BAM_RA == "BAM-RA"
BAM_ANY == "BAM-*"
NO_STEP == "VCF"

\* the four fixed file names of expected_static_files
F_PAIRS == "samples.pairs.csv"
F_FASTQ == "samples.fastq-raw.csv"
F_SETTINGS == "settings.txt"
F_SUMMARY == "summary-combined.wes.csv"

\* candidate targets files in the root, and the patterns of _init_files
F_BED == "t.bed"
F_PADBED == "t.pad10.bed"
P_BED == "*.bed"
P_PADBED == "*.pad10.bed"

\* sample identifiers, their search patterns, the files of a step directory
S1 == "S1"
S2 == "S2"
P_S1 == "S1*"
P_S2 == "S2*"
F_S1_BAM == "S1.bam"
F_S2_BAM == "S2.bam"
F_S1_TXT == "S1.txt"
F_S12_BAM == "S12.bam"
P_BAM == "*.bam"
P_ALL == "*"

\* queue-log file names, the default error marker, and log lines
F_LOG_A == "a.o1"
F_LOG_B == "b.o2"
ERROR_MARK == "ERROR:"
L_CLEAN == "ERROR"
L_ERROR == "xERROR:y"

\* the default error token and summary-table cells
X == "X"
C_XX == "XX"
C_OK == "7"

\* how each string is spelled: TLC compares strings whole, so the matching of
\* patterns and the search for substrings read a string's characters here
Spelling ==
    (PARENT :> <<"_", "p", "a", "r", "e", "n", "t">>) @@
    (LOGS_QSUB :> <<"l", "o", "g", "s", "-", "q", "s", "u", "b">>) @@
    (BAM_DD :> <<"B", "A", "M", "-", "D", "D">>) @@
    (BAM_RA :> <<"B", "A", "M", "-", "R", "A">>) @@
    (BAM_ANY :> <<"B", "A", "M", "-", "*">>) @@
    (NO_STEP :> <<"V", "C", "F">>) @@
    (F_PAIRS :> <<"s", "a", "m", "p", "l", "e", "s", ".", "p", "a", "i", "r", "s", ".", "c", "s", "v">>) @@
    (F_FASTQ :> <<"s", "a", "m", "p", "l", "e", "s", ".", "f", "a", "s", "t", "q", "-", "r", "a", "w", ".", "c", "s", "v">>) @@
    (F_SETTINGS :> <<"s", "e", "t", "t", "i", "n", "g", "s", ".", "t", "x", "t">>) @@
    (F_SUMMARY :> <<"s", "u", "m", "m", "a", "r", "y", "-", "c", "o", "m", "b", "i", "n", "e", "d", ".", "w", "e", "s", ".", "c", "s", "v">>) @@
    (F_BED :> <<"t", ".", "b", "e", "d">>) @@
    (F_PADBED :> <<"t", ".", "p", "a", "d", "1", "0", ".", "b", "e", "d">>) @@
    (P_BED :> <<"*", ".", "b", "e", "d">>) @@
    (P_PADBED :> <<"*", ".", "p", "a", "d", "1", "0", ".", "b", "e", "d">>) @@
    (S1 :> <<"S", "1">>) @@
    (S2 :> <<"S", "2">>) @@
    (P_S1 :> <<"S", "1", "*">>) @@
    (P_S2 :> <<"S", "2", "*">>) @@
    (F_S1_BAM :> <<"S", "1", ".", "b", "a", "m">>) @@
    (F_S2_BAM :> <<"S", "2", ".", "b", "a", "m">>) @@
    (F_S1_TXT :> <<"S", "1", ".", "t", "x", "t">>) @@
    (F_S12_BAM :> <<"S", "1", "2", ".", "b", "a", "m">>) @@
    (P_BAM :> <<"*", ".", "b", "a", "m">>) @@
    (P_ALL :> <<"*">>) @@
    (F_LOG_A :> <<"a", ".", "o", "1">>) @@
    (F_LOG_B :> <<"b", ".", "o", "2">>) @@
    (ERROR_MARK :> <<"E", "R", "R", "O", "R", ":">>) @@
    (L_CLEAN :> <<"E", "R", "R", "O", "R">>) @@
    (L_ERROR :> <<"x", "E", "R", "R", "O", "R", ":", "y">>) @@
    (X :> <<"X">>) @@
    (C_XX :> <<"X", "X">>) @@
    (C_OK :> <<"7">>)

\* the order in which the filesystem lists names
FsOrder ==
    << PARENT, LOGS_QSUB, BAM_DD, BAM_RA,
       F_PAIRS, F_FASTQ, F_SETTINGS, F_SUMMARY, F_PADBED, F_BED,
       F_S12_BAM, F_S1_BAM, F_S1_TXT, F_S2_BAM, F_LOG_A, F_LOG_B >>

\* ---------------------------------------------------------------- the disk

ROOT == "/"
AnalysisDir == <<ROOT>>

Join(path, name) == Append(path, name)

DirNames == {PARENT, LOGS_QSUB, BAM_DD, BAM_RA}
StaticFileNames == {F_PAIRS, F_FASTQ, F_SETTINGS, F_SUMMARY}
BedNames == {F_BED, F_PADBED}
StepFileNames == {F_S1_BAM, F_S2_BAM, F_S1_TXT, F_S12_BAM}
LogNames == {F_LOG_A, F_LOG_B}
SchemaKeys == {PARENT, LOGS_QSUB, BAM_DD, BAM_ANY}
Columns == {"#SAMPLE", "lane", "reads"}

\* the files directly inside a child directory of the root
FilesIn(d, name) ==
    IF name = LOGS_QSUB THEN DOMAIN d.logs
    ELSE IF name = BAM_DD THEN d.stepFiles
    ELSE {}

IsDir(d, path) ==
    /\ d.root
    /\ \/ path = AnalysisDir
       \/ \E n \in d.subdirs : path = Join(AnalysisDir, n)

IsFile(d, path) ==
    /\ d.root
    /\ \/ \E f \in d.rootFiles : path = Join(AnalysisDir, f)
       \/ \E n \in d.subdirs : \E f \in FilesIn(d, n) :
              path = Join(Join(AnalysisDir, n), f)

\* os.path.exists
Exists(d, path) == IsDir(d, path) \/ IsFile(d, path)

\* the lines of a file: queue logs have modelled content
FileLines(d, path) ==
    IF \E f \in DOMAIN d.logs : path = Join(Join(AnalysisDir, LOGS_QSUB), f)
    THEN d.logs[path[Len(path)]]
    ELSE <<>>

\* the rows csv.DictReader yields: the summary table has modelled content
DictRows(d, path) ==
    IF path = Join(AnalysisDir, F_SUMMARY) THEN d.summary ELSE <<>>

\* the rows csv.reader yields: the raw-fastq manifest has modelled content
CsvRows(d, path) ==
    IF path = Join(AnalysisDir, F_FASTQ) THEN d.manifest ELSE <<>>

\* --------------------------------------------------------- pattern matcher

\* glob-style match of characters s against pattern p ("*" matches any run)
RECURSIVE GlobChars(_, _)
GlobChars(p, s) ==
    IF p = <<>> THEN s = <<>>
    ELSE IF Head(p) = "*"
         THEN GlobChars(Tail(p), s) \/ (s # <<>> /\ GlobChars(p, Tail(s)))
         ELSE s # <<>> /\ Head(s) = Head(p) /\ GlobChars(Tail(p), Tail(s))

Glob(pattern, name) == GlobChars(Spelling[pattern], Spelling[name])

\* the names of one kind directly inside a directory
ChildNames(d, dir, kind) ==
    IF ~IsDir(d, dir) THEN {}
    ELSE IF dir = AnalysisDir
         THEN (IF kind = "dir" THEN d.subdirs ELSE d.rootFiles)
         ELSE (IF kind = "dir" THEN {} ELSE FilesIn(d, dir[Len(dir)]))

InOrder(names) == SelectSeq(FsOrder, LAMBDA n : n \in names)

PathsOf(dir, ordered) == [i \in 1..Len(ordered) |-> Join(dir, ordered[i])]

\* the entries of one kind directly inside a directory, in listing order
Listing(d, dir, kind) == PathsOf(dir, InOrder(ChildNames(d, dir, kind)))

RECURSIVE Below(_, _, _)
Below(d, subs, kind) ==
    IF subs = <<>> THEN <<>>
    ELSE Listing(d, Head(subs), kind) \o Below(d, Tail(subs), kind)

\* the entries under a directory: its children when level_limit = 0, every
\* descendant otherwise (the disk is two levels deep)
Walk(d, dir, kind, level_limit) ==
    Listing(d, dir, kind)
        \o (IF level_limit = 0 THEN <<>>
            ELSE Below(d, Listing(d, dir, "dir"), kind))

Included(name, patterns, match_mode) ==
    \/ patterns = <<>>
    \/ /\ match_mode = "any"
       /\ \E i \in 1..Len(patterns) : Glob(patterns[i], name)
    \/ /\ match_mode = "all"
       /\ \A i \in 1..Len(patterns) : Glob(patterns[i], name)

Excluded(name, patterns) ==
    \E i \in 1..Len(patterns) : Glob(patterns[i], name)

\* num_limit = 0 is no limit
Truncate(found, num_limit) ==
    IF num_limit = 0 \/ Len(found) <= num_limit THEN found
    ELSE SubSeq(found, 1, num_limit)

\* find.find: level_limit = -1 is no limit
Find(d, search_dir, inclusion_patterns, exclusion_patterns, search_type, num_limit, level_limit, match_mode) ==
    Truncate(SelectSeq(Walk(d, search_dir, search_type, level_limit),
                       LAMBDA p :
                           /\ Included(p[Len(p)], inclusion_patterns, match_mode)
                           /\ ~Excluded(p[Len(p)], exclusion_patterns)),
             num_limit)

\* ----------------------------------------------------------- path registry

\* a registry is a function from names to sequences of paths
EmptyRegistry == [k \in {} |-> <<>>]

\* set_dir / set_file
set_item(registry, name, path) ==
    [k \in DOMAIN registry \cup {name} |->
        IF k = name THEN path ELSE registry[k]]

\* get_dirs / get_files: total, an absent name reads as the empty sequence
get_items(registry, name) ==
    IF name \in DOMAIN registry THEN registry[name] ELSE <<>>

\* indexing a defaultdict(list): an absent name is inserted, mapped to []
index_default(registry, name) ==
    IF name \in DOMAIN registry THEN registry
    ELSE set_item(registry, name, <<>>)

\* a variant that hands back the first path of any non-empty sequence
list_none_first(l) == IF Len(l) >= 1 THEN l[1] ELSE None

\* the single path of a one-element sequence, None otherwise
list_none(l) == IF Len(l) = 1 THEN l[1] ELSE None

\* ------------------------------------------------- SnsWESAnalysisOutput

\* what a call hands back: exc is "" on a normal return, else the exception
Return(v) == [exc |-> "", val |-> v]
Raise(e) == [exc |-> e, val |-> <<>>]

\* a variant that keeps only the keys for which a directory was found
_init_dirs_found(d, index) ==
    [name \in {n \in index \ {PARENT} :
                  Find(d, AnalysisDir, <<n>>, <<>>, "dir", 1, 0, "any") # <<>>} |->
        Find(d, AnalysisDir, <<name>>, <<>>, "dir", 1, 0, "any")]

\* _init_dirs: one entry per schema key but the reserved one
_init_dirs(d, index) ==
    [name \in index \ {PARENT} |->
        Find(d, AnalysisDir, <<name>>, <<>>, "dir", 1, 0, "any")]

\* _init_files: the targets file
_init_files(d) ==
    set_item(EmptyRegistry, "targets_bed",
             Find(d, AnalysisDir, <<P_BED>>, <<P_PADBED>>, "file", 1, 0, "any"))

expected_static_files ==
    [k \in {"paired_samples", "samples_fastq_raw", "settings",
            "summary_combined_wes"} |->
        CASE k = "paired_samples" -> Join(AnalysisDir, F_PAIRS)
          [] k = "samples_fastq_raw" -> Join(AnalysisDir, F_FASTQ)
          [] k = "settings" -> Join(AnalysisDir, F_SETTINGS)
          [] k = "summary_combined_wes" -> Join(AnalysisDir, F_SUMMARY)]

\* get_qsub_logfiles once the log directory is settled
logfiles_in(d, logdir) ==
    IF logdir = None THEN Raise("AnalysisItemMissing")
    ELSE Return(Find(d, logdir, <<>>, <<>>, "file", 0, -1, "any"))

get_qsub_logfiles(d, registry, logdir) ==
    logfiles_in(d, IF logdir = None
                   THEN list_none(get_items(registry, LOGS_QSUB))
                   ELSE logdir)

\* for some pattern, pattern in line
IsIn(pattern, line) ==
    \E i \in 0..(Len(line) - Len(pattern)) :
        SubSeq(line, i + 1, i + Len(pattern)) = pattern

\* a variant that looks for the pattern at the start of the line only
HasPatternAtStart(line, err_patterns) ==
    \E k \in 1..Len(err_patterns) :
        /\ Len(Spelling[err_patterns[k]]) <= Len(Spelling[line])
        /\ SubSeq(Spelling[line], 1, Len(Spelling[err_patterns[k]]))
               = Spelling[err_patterns[k]]

HasPattern(line, err_patterns) ==
    \E k \in 1..Len(err_patterns) :
        IsIn(Spelling[err_patterns[k]], Spelling[line])

\* the keys of contains_errors after the scan of the log files
log_contains_errors(d, log_files, err_patterns) ==
    {f \in Range(log_files) :
        \E i \in 1..Len(FileLines(d, f)) :
            HasPattern(FileLines(d, f)[i], err_patterns)}

\* val: whether errors are present; errors: what the logger is told
Checked(contains_errors) ==
    [exc |-> "", val |-> contains_errors # {}, errors |-> contains_errors]

Failed(e) == [exc |-> e, val |-> FALSE, errors |-> {}]

\* check_qsub_log_errors_present once the log files are settled
scan_log_files(d, got, err_patterns) ==
    IF got.exc # "" THEN Failed(got.exc)
    ELSE IF got.val = <<>> THEN Failed("AnalysisItemMissing")
    ELSE IF \E f \in Range(got.val) : ~IsFile(d, f) THEN Failed("IOError")
    ELSE Checked(log_contains_errors(d, got.val, err_patterns))

\* a variant that reads "no log directory, no log file" as "no error"
check_qsub_log_errors_lenient(d, registry, log_files, err_patterns) ==
    LET got == get_qsub_logfiles(d, registry, None)
    IN  IF got.exc # "" \/ got.val = <<>> THEN Checked({})
        ELSE Checked(log_contains_errors(d, got.val, err_patterns))

check_qsub_log_errors_present(d, registry, log_files, err_patterns) ==
    scan_log_files(d,
                   IF log_files = <<>>
                   THEN get_qsub_logfiles(d, registry, None)
                   ELSE Return(log_files),
                   err_patterns)

\* get_summary_combined_contents once the file is settled
read_summary(d, file) ==
    IF file = None THEN Raise("AnalysisItemMissing")
    ELSE IF ~IsFile(d, file) THEN Raise("IOError")
    ELSE Return(DictRows(d, file))

get_summary_combined_contents(d, statics, summary_combined_wes_file) ==
    read_summary(d, IF summary_combined_wes_file # None
                    THEN summary_combined_wes_file
                    ELSE IF "summary_combined_wes" \in DOMAIN statics
                         THEN statics["summary_combined_wes"]
                         ELSE None)

\* a variant that scans the identifier column as well
rows_contain_errors_anycolumn(rows, err_pattern) ==
    {rows[i]["#SAMPLE"] : i \in
        {j \in 1..Len(rows) :
            \E key \in DOMAIN rows[j] : rows[j][key] = err_pattern}}

\* the keys of contains_errors after the scan of the rows
rows_contain_errors(rows, err_pattern) ==
    {rows[i]["#SAMPLE"] : i \in
        {j \in 1..Len(rows) :
            \E key \in DOMAIN rows[j] :
                key # "#SAMPLE" /\ rows[j][key] = err_pattern}}

\* summary_combined_contains_errors once the rows are settled
scan_rows(got, err_pattern) ==
    IF got.exc # "" THEN Failed(got.exc)
    ELSE Checked(rows_contain_errors(got.val, err_pattern))

summary_combined_contains_errors(d, statics, summary_combined_wes_rows, err_pattern) ==
    scan_rows(IF summary_combined_wes_rows = <<>>
              THEN get_summary_combined_contents(d, statics, None)
              ELSE Return(summary_combined_wes_rows),
              err_pattern)

NoLog == [qsub |-> {}, summary |-> {}]

NoValidations == [k \in {} |-> [status |-> FALSE, note |-> <<>>]]

Entry(name, status, text, items) ==
    [k \in {name} |->
        [status |-> status, note |-> [text |-> text, items |-> items]]]

CheckOrder ==
    <<"dir_exists", "expected_static_files_exist",
      "no_qsub_log_errors_present", "no_summary_combined_errors">>

\* what a run of validate leaves: the boolean it returns or the exception it
\* raises, the validations mapping, the checks it started, what it logged
Outcome(exc, val, v, started, qsub, summary) ==
    [exc |-> exc, val |-> val, validations |-> v,
     ran |-> SubSeq(CheckOrder, 1, started),
     logged |-> [qsub |-> qsub, summary |-> summary]]

\* the (key, path, exists) tuples of check 2
existences(d) ==
    {<<k, expected_static_files[k], Exists(d, expected_static_files[k])>> :
        k \in DOMAIN expected_static_files}

\* validate, lines 393-415: checks 1 and 2
validate_static(d) ==
    Entry("dir_exists", Exists(d, AnalysisDir),
          "Whether or not the analysis directory exists", {})
      @@ Entry("expected_static_files_exist",
               \A e \in existences(d) : e[3],
               "Whether or not all of the expected files in the analysis exist",
               existences(d))

\* validate, lines 434-441: the aggregate
validate_all(v, qsub, summary) ==
    Outcome("", \A k \in DOMAIN v : v[k].status, v, 4, qsub, summary)

\* validate, lines 426-433: check 4, given the outcome s of its scan
validate_summary(v, qsub, s) ==
    IF s.exc # "" THEN Outcome(s.exc, FALSE, v, 4, qsub, {})
    ELSE validate_all(
             v @@ Entry("no_summary_combined_errors", ~s.val,
                        "Whether or not entries are present in the summary combined file",
                        {}),
             qsub, s.errors)

\* a variant that stores the scan's answer as the status, without the "not"
validate_qsub_unnegated(d, statics, v, q) ==
    IF q.exc # "" THEN Outcome(q.exc, FALSE, v, 3, {}, {})
    ELSE validate_summary(
             v @@ Entry("no_qsub_log_errors_present", q.val,
                        "Whether or not errors are present in the qsub logs", {}),
             q.errors,
             summary_combined_contains_errors(d, statics, <<>>, X))

\* a variant that records a failed check 3 and goes on to check 4
validate_qsub_continue(d, statics, v, q) ==
    validate_summary(
        v @@ Entry("no_qsub_log_errors_present", q.exc = "" /\ ~q.val,
                   "Whether or not errors are present in the qsub logs", {}),
        q.errors,
        summary_combined_contains_errors(d, statics, <<>>, X))

\* validate, lines 417-424: check 3, given the outcome q of its scan
validate_qsub(d, statics, v, q) ==
    IF q.exc # "" THEN Outcome(q.exc, FALSE, v, 3, {}, {})
    ELSE validate_summary(
             v @@ Entry("no_qsub_log_errors_present", ~q.val,
                        "Whether or not errors are present in the qsub logs", {}),
             q.errors,
             summary_combined_contains_errors(d, statics, <<>>, X))

\* a variant that returns at the first failed check
validate_shortcircuit(d, registry, statics) ==
    IF \E k \in DOMAIN validate_static(d) : ~validate_static(d)[k].status
    THEN Outcome("", FALSE, validate_static(d), 2, {}, {})
    ELSE validate_qsub(d, statics, validate_static(d),
                       check_qsub_log_errors_present(d, registry, <<>>, <<ERROR_MARK>>))

validate(d, registry, statics) ==
    validate_qsub(d, statics, validate_static(d),
                  check_qsub_log_errors_present(d, registry, <<>>, <<ERROR_MARK>>))

\* the lists a set can be turned into
Orderings(S) ==
    {o \in [1..Cardinality(S) -> S] : \A i, j \in DOMAIN o : o[i] = o[j] => i = j}

\* a variant that hands the list back as read
unique_as_read(samplesIDs) == {samplesIDs}

\* list(set(samplesIDs)): unique entries, in an order Python does not promise;
\* the lists the call may hand back
unique(samplesIDs) == Orderings(Range(samplesIDs))

\* the loop over the rows: row[0] of every row; a blank row has no column
first_column(rows) ==
    IF \E i \in 1..Len(rows) : rows[i] = <<>>
    THEN [exc |-> "IndexError", val |-> {<<>>}]
    ELSE [exc |-> "", val |-> unique([i \in 1..Len(rows) |-> rows[i][1]])]

\* get_samplesIDs_from_samples_fastq_raw once the file is settled
read_manifest(d, file) ==
    IF file = None THEN [exc |-> "AnalysisItemMissing", val |-> {<<>>}]
    ELSE IF ~IsFile(d, file) THEN [exc |-> "IOError", val |-> {<<>>}]
    ELSE first_column(CsvRows(d, file))

\* val: the lists the call may return
get_samplesIDs_from_samples_fastq_raw(d, statics, samples_fastq_raw_file) ==
    read_manifest(d, IF samples_fastq_raw_file # None
                     THEN samples_fastq_raw_file
                     ELSE IF "samples_fastq_raw" \in DOMAIN statics
                          THEN statics["samples_fastq_raw"]
                          ELSE None)

ANALYSIS_ID == "sns_analysis1"
RESULTS_ID == "results1"

\* get_analysis_config reads is_valid, which only a validating constructor set.
\* dirs, files and static_files are handed on by reference: the sample's
\* analysis_config names the parent's own registries.
get_analysis_config(valid) ==
    IF valid = Unset THEN Raise("AttributeError")
    ELSE Return([analysis_id |-> ANALYSIS_ID, analysis_dir |-> AnalysisDir,
                 results_id |-> RESULTS_ID, analysis_is_valid |-> valid[1]])

\* ----------------------------------------------------- SnsAnalysisSample

\* SnsAnalysisSample.__init__ with _init_analysis_attrs, _init_dirs, _init_files.
\* static_files names the parent's own mapping; no operation writes that
\* mapping in place, so the sample reads what it held at construction.
SnsAnalysisSample(id, analysis_config, parent_dirs, parent_files, parent_static_files) ==
    [id |-> id,
     search_pattern |-> id \o "*",
     analysis_id |-> analysis_config.analysis_id,
     analysis_dir |-> analysis_config.analysis_dir,
     results_id |-> analysis_config.results_id,
     analysis_is_valid |-> analysis_config.analysis_is_valid,
     static_files |-> parent_static_files,
     dirs |-> [name \in DOMAIN parent_dirs \ {PARENT} |-> parent_dirs[name]],
     files |-> [name \in DOMAIN parent_files |-> parent_files[name]]]

\* a variant that hands back no files where the step has no directory
search_step_quiet(d, after, search_dir, patterns) ==
    IF search_dir # None
    THEN [exc |-> "", dirs |-> after,
          val |-> Find(d, search_dir, patterns, <<>>, "file", 0, -1, "all")]
    ELSE [exc |-> "", dirs |-> after, val |-> <<>>]

\* get_output_files once the step's directory is settled
search_step(d, after, search_dir, patterns) ==
    IF search_dir # None
    THEN [exc |-> "", dirs |-> after,
          val |-> Find(d, search_dir, patterns, <<>>, "file", 0, -1, "all")]
    ELSE [exc |-> "AnalysisItemMissing", dirs |-> after, val |-> <<>>]

\* the step's entry in a registry that holds it
step_dir(after, analysis_step, d, patterns) ==
    search_step(d, after, list_none(after[analysis_step]), patterns)

\* a variant that searches with the caller's pattern alone
get_output_files_anysample(d, sample, config_dirs, analysis_step, pattern) ==
    step_dir(index_default(config_dirs, analysis_step), analysis_step, d,
             <<pattern>>)

\* get_output_files: config_dirs is analysis_config['dirs'], the parent's
\* registry, which the indexing may extend; dirs is that registry afterwards
get_output_files(d, sample, config_dirs, analysis_step, pattern) ==
    step_dir(index_default(config_dirs, analysis_step), analysis_step, d,
             <<pattern, sample.search_pattern>>)

\* ---------------------------------------------------------------- actions

Result(op, args, exc, value, ran) ==
    [op |-> op, args |-> args, exc |-> exc, value |-> value, ran |-> ran]

\* a variant that validates in debug mode as well
Validated_always(debug, d0, f0, s0, v) ==
    IF v.exc = ""
    THEN /\ pc' = "ready"
         /\ dirs' = d0 /\ files' = f0 /\ static_files' = s0
         /\ is_valid' = <<v.val>>
         /\ validations' = v.validations
         /\ logged' = v.logged
         /\ ret' = Result("construct", <<debug>>, "", <<>>, v.ran)
    ELSE /\ pc' = "failed"
         /\ logged' = v.logged
         /\ ret' = Result("construct", <<debug>>, v.exc, <<>>, v.ran)
         /\ UNCHANGED <<dirs, files, static_files, is_valid, validations>>

\* the constructor's last step: validate unless debug, keep its result
Validated(debug, d0, f0, s0, v) ==
    IF debug
    THEN /\ pc' = "ready"
         /\ dirs' = d0 /\ files' = f0 /\ static_files' = s0
         /\ UNCHANGED <<is_valid, validations, logged>>
         /\ ret' = Result("construct", <<debug>>, "", <<>>, <<>>)
    ELSE IF v.exc = ""
    THEN /\ pc' = "ready"
         /\ dirs' = d0 /\ files' = f0 /\ static_files' = s0
         /\ is_valid' = <<v.val>>
         /\ validations' = v.validations
         /\ logged' = v.logged
         /\ ret' = Result("construct", <<debug>>, "", <<>>, v.ran)
    ELSE /\ pc' = "failed"
         /\ logged' = v.logged
         /\ ret' = Result("construct", <<debug>>, v.exc, <<>>, v.ran)
         /\ UNCHANGED <<dirs, files, static_files, is_valid, validations>>

Resolved(debug, d0, f0, s0) ==
    Validated(debug, d0, f0, s0, validate(disk, d0, s0))

\* SnsWESAnalysisOutput(dir, id, sns_config, debug = debug)
Construct(debug) ==
    /\ pc = "none"
    /\ Resolved(debug, _init_dirs(disk, analysis_output_index),
                _init_files(disk), expected_static_files)
    /\ UNCHANGED <<disk, analysis_output_index, samples>>

\* a variant in which validate() keeps its result in is_valid as well
Validation_stores(v) ==
    /\ validations' = v.validations
    /\ is_valid' = (IF v.exc = "" THEN <<v.val>> ELSE is_valid)
    /\ logged' = v.logged
    /\ ret' = Result("validate", <<>>, v.exc,
                     IF v.exc = "" THEN <<v.val>> ELSE <<>>, v.ran)

\* validate(): validations is rebuilt, is_valid is not written
Validation(v) ==
    /\ validations' = v.validations
    /\ is_valid' = is_valid
    /\ logged' = v.logged
    /\ ret' = Result("validate", <<>>, v.exc,
                     IF v.exc = "" THEN <<v.val>> ELSE <<>>, v.ran)

\* analysis.validate()
Validate ==
    /\ pc = "ready"
    /\ Validation(validate(disk, dirs, static_files))
    /\ UNCHANGED <<disk, analysis_output_index, pc, dirs, files, static_files,
                   samples>>

\* analysis.get_samplesIDs_from_samples_fastq_raw()
GetSamplesIDs ==
    /\ pc = "ready"
    /\ LET r == get_samplesIDs_from_samples_fastq_raw(disk, static_files, None)
       IN  \E order \in r.val :
               ret' = Result("get_samplesIDs", <<>>, r.exc, order, <<>>)
    /\ UNCHANGED <<disk, analysis_output_index, pc, dirs, files, static_files,
                   is_valid, validations, samples, logged>>

\* a variant that builds the samples last identifier first
Sampled_reversed(samplesIDs, r, c) ==
    \E ids \in (IF samplesIDs = <<>> THEN r.val ELSE {samplesIDs}) :
        IF r.exc # ""
        THEN /\ ret' = Result("get_samples", <<samplesIDs>>, r.exc, <<>>, <<>>)
             /\ UNCHANGED samples
        ELSE IF ids # <<>> /\ c.exc # ""
        THEN /\ ret' = Result("get_samples", <<samplesIDs>>, c.exc, <<>>, <<>>)
             /\ UNCHANGED samples
        ELSE /\ samples' = [i \in 1..Len(ids) |->
                               SnsAnalysisSample(ids[Len(ids) + 1 - i], c.val,
                                                 dirs, files, static_files)]
             /\ ret' = Result("get_samples", <<samplesIDs>>, "", ids, <<>>)

\* get_samples once the identifiers r and the configuration c are settled
Sampled(samplesIDs, r, c) ==
    \E ids \in (IF samplesIDs = <<>> THEN r.val ELSE {samplesIDs}) :
        IF r.exc # ""
        THEN /\ ret' = Result("get_samples", <<samplesIDs>>, r.exc, <<>>, <<>>)
             /\ UNCHANGED samples
        ELSE IF ids # <<>> /\ c.exc # ""
        THEN /\ ret' = Result("get_samples", <<samplesIDs>>, c.exc, <<>>, <<>>)
             /\ UNCHANGED samples
        ELSE /\ samples' = [i \in 1..Len(ids) |->
                               SnsAnalysisSample(ids[i], c.val, dirs, files, static_files)]
             /\ ret' = Result("get_samples", <<samplesIDs>>, "", ids, <<>>)

\* analysis.get_samples(samplesIDs): <<>> stands for the omitted argument
GetSamples(samplesIDs) ==
    /\ pc = "ready"
    /\ Sampled(samplesIDs,
               IF samplesIDs = <<>>
               THEN get_samplesIDs_from_samples_fastq_raw(disk, static_files, None)
               ELSE [exc |-> "", val |-> {samplesIDs}],
               get_analysis_config(is_valid))
    /\ UNCHANGED <<disk, analysis_output_index, pc, dirs, files, static_files,
                   is_valid, validations, logged>>

Looked(i, analysis_step, pattern, r) ==
    /\ dirs' = r.dirs
    /\ ret' = Result("get_output_files", <<i, analysis_step, pattern>>,
                     r.exc, r.val, <<>>)

\* samples[i].get_output_files(analysis_step, pattern)
GetOutputFiles(i, analysis_step, pattern) ==
    /\ pc = "ready"
    /\ i \in 1..Len(samples)
    /\ Looked(i, analysis_step, pattern,
              get_output_files(disk, samples[i], dirs, analysis_step, pattern))
    /\ UNCHANGED <<disk, analysis_output_index, pc, files, static_files,
                   is_valid, validations, samples, logged>>

\* analysis.set_dir(name, path): the parent's registry is written in place
SetDir(name, path) ==
    /\ pc = "ready"
    /\ dirs' = set_item(dirs, name, path)
    /\ ret' = Result("set_dir", <<name, path>>, "", <<>>, <<>>)
    /\ UNCHANGED <<disk, analysis_output_index, pc, files, static_files,
                   is_valid, validations, samples, logged>>

\* analysis.get_dirs(name)
GetDirs(name) ==
    /\ pc = "ready"
    /\ ret' = Result("get_dirs", <<name>>, "", get_items(dirs, name), <<>>)
    /\ UNCHANGED <<disk, analysis_output_index, pc, dirs, files, static_files,
                   is_valid, validations, samples, logged>>

\* analysis.get_files(name)
GetFiles(name) ==
    /\ pc = "ready"
    /\ ret' = Result("get_files", <<name>>, "", get_items(files, name), <<>>)
    /\ UNCHANGED <<disk, analysis_output_index, pc, dirs, files, static_files,
                   is_valid, validations, samples, logged>>

\* analysis.list_none(l = analysis.get_dirs(name))
ListNone(name) ==
    /\ pc = "ready"
    /\ ret' = Result("list_none", <<get_items(dirs, name)>>, "",
                     <<list_none(get_items(dirs, name))>>, <<>>)
    /\ UNCHANGED <<disk, analysis_output_index, pc, dirs, files, static_files,
                   is_valid, validations, samples, logged>>

\* ------------------------------------------------------- the inputs drawn

Row(id, lane, reads) ==
    [c \in Columns |->
        IF c = "#SAMPLE" THEN id ELSE IF c = "lane" THEN lane ELSE reads]

\* a clean row, a row with the error token in a data column, and a row whose
\* identifier is the token and whose cell only contains it
RowChoices == {Row(S1, C_OK, C_OK), Row(S2, C_OK, X), Row(X, C_XX, C_OK)}
LineChoices == {L_CLEAN, L_ERROR}
ManifestRowChoices == {<<>>, <<S1>>, <<S2, F_S2_BAM>>}

LogChoices ==
    UNION {[S -> SeqsUpTo(LineChoices, MaxLogLines)] : S \in SUBSET LogNames}
SummaryChoices == SeqsUpTo(RowChoices, MaxSummaryRows)
ManifestChoices == SeqsUpTo(ManifestRowChoices, MaxManifestRows)

\* a complete, sound analysis output
SoundDisk ==
    [root |-> TRUE,
     subdirs |-> {LOGS_QSUB, BAM_DD},
     rootFiles |-> StaticFileNames \cup {F_BED},
     logs |-> [f \in {F_LOG_A} |-> <<L_CLEAN>>],
     summary |-> <<Row(S1, C_OK, C_OK)>>,
     manifest |-> << <<S1>>, <<S2, F_S2_BAM>> >>,
     stepFiles |-> {F_S1_BAM, F_S2_BAM}]

\* a root directory that does not exist holds nothing
NoDisk ==
    [root |-> FALSE, subdirs |-> {}, rootFiles |-> {},
     logs |-> [f \in {} |-> <<>>], summary |-> <<>>, manifest |-> <<>>,
     stepFiles |-> {}]

\* only an existing directory holds files, only an existing file has rows
WellFormed(d) ==
    /\ (LOGS_QSUB \notin d.subdirs) => d.logs = [f \in {} |-> <<>>]
    /\ (BAM_DD \notin d.subdirs) => d.stepFiles = {}
    /\ (F_SUMMARY \notin d.rootFiles) => d.summary = <<>>
    /\ (F_FASTQ \notin d.rootFiles) => d.manifest = <<>>

FullIndex == {PARENT, LOGS_QSUB, BAM_DD}

\* the roots over which registry resolution, the manifest and the lookups vary
DiscoveryDisks ==
    {[SoundDisk EXCEPT !.subdirs = sub,
                       !.logs = IF LOGS_QSUB \in sub THEN SoundDisk.logs ELSE NoDisk.logs,
                       !.stepFiles = IF BAM_DD \in sub THEN SoundDisk.stepFiles ELSE {}] :
        sub \in SUBSET DirNames}
BedDisks ==
    {[SoundDisk EXCEPT !.rootFiles = StaticFileNames \cup beds] :
        beds \in SUBSET BedNames}
ManifestDisks ==
    {[SoundDisk EXCEPT !.manifest = m] : m \in ManifestChoices}
LookupDisks ==
    {[SoundDisk EXCEPT !.stepFiles = fs] : fs \in SUBSET StepFileNames}

SampleScenarios ==
    {[disk |-> d, index |-> ix] : d \in DiscoveryDisks, ix \in SUBSET SchemaKeys}
        \cup {[disk |-> d, index |-> FullIndex] :
                 d \in BedDisks \cup ManifestDisks \cup LookupDisks \cup {NoDisk}}

\* the roots over which validation varies
StaticDisks ==
    {d \in {[SoundDisk EXCEPT !.rootFiles = st \cup {F_BED},
                              !.subdirs = sub,
                              !.logs = lg, !.summary = sm] :
               st \in SUBSET StaticFileNames,
               sub \in {{BAM_DD}, {LOGS_QSUB, BAM_DD}},
               lg \in {NoDisk.logs, SoundDisk.logs, [f \in {F_LOG_A} |-> <<L_ERROR>>]},
               sm \in {<<>>, SoundDisk.summary, <<Row(S2, C_OK, X)>>}} :
        WellFormed(d)}
LogDisks ==
    {[SoundDisk EXCEPT !.logs = lg, !.summary = sm, !.rootFiles = st \cup {F_BED}] :
        lg \in LogChoices,
        sm \in {SoundDisk.summary, <<Row(S2, C_OK, X)>>},
        st \in {StaticFileNames, StaticFileNames \ {F_SETTINGS}}}
SummaryDisks ==
    {[SoundDisk EXCEPT !.summary = sm, !.logs = lg, !.rootFiles = st \cup {F_BED}] :
        sm \in SummaryChoices,
        lg \in {SoundDisk.logs, [f \in {F_LOG_A} |-> <<L_ERROR>>]},
        st \in {StaticFileNames, StaticFileNames \ {F_SETTINGS}}}

ValidateScenarios ==
    {[disk |-> d, index |-> ix] :
        d \in StaticDisks \cup LogDisks \cup SummaryDisks \cup {NoDisk},
        ix \in {FullIndex, FullIndex \ {LOGS_QSUB}}}

IdsChoices == {<<>>, <<S1>>, <<S2, S1>>}
StepChoices == {BAM_DD, BAM_ANY, NO_STEP}
PatternChoices == {P_BAM, P_ALL}

\* ---------------------------------------------------------- specifications

InitObject ==
    /\ pc = "none"
    /\ dirs = EmptyRegistry
    /\ files = EmptyRegistry
    /\ static_files = EmptyRegistry
    /\ is_valid = Unset
    /\ validations = NoValidations
    /\ samples = <<>>
    /\ logged = NoLog
    /\ ret = Result("none", <<>>, "", <<>>, <<>>)

Init ==
    /\ \E sc \in SampleScenarios :
           disk = sc.disk /\ analysis_output_index = sc.index
    /\ InitObject

Next ==
    \/ \E debug \in BOOLEAN : Construct(debug)
    \/ GetSamplesIDs
    \/ \E ids \in IdsChoices : GetSamples(ids)
    \/ \E i \in 1..2, step \in StepChoices, pattern \in PatternChoices :
           GetOutputFiles(i, step, pattern)

Spec == Init /\ [][Next]_vars

InitValidate ==
    /\ \E sc \in ValidateScenarios :
           disk = sc.disk /\ analysis_output_index = sc.index
    /\ InitObject

NextValidate ==
    \/ \E debug \in BOOLEAN : Construct(debug)
    \/ Validate

SpecValidate == InitValidate /\ [][NextValidate]_vars

\* the roots of a session in which one analysis is built, changed and queried
SessionDisks ==
    {SoundDisk, NoDisk,
     [SoundDisk EXCEPT !.logs = [f \in {F_LOG_A} |-> <<L_ERROR>>]],
     [SoundDisk EXCEPT !.rootFiles = @ \ {F_SUMMARY}, !.summary = <<>>],
     [SoundDisk EXCEPT !.rootFiles = @ \ {F_FASTQ}, !.manifest = <<>>],
     [SoundDisk EXCEPT !.manifest = << <<S1>>, <<S1>>, <<S2, F_S2_BAM>> >>],
     [SoundDisk EXCEPT !.subdirs = {LOGS_QSUB}, !.stepFiles = {}]}

\* the writes to the parent's directories registry
SetDirChoices ==
    {<<BAM_DD, <<>> >>,
     <<BAM_DD, <<Join(AnalysisDir, BAM_DD), Join(AnalysisDir, LOGS_QSUB)>> >>,
     <<LOGS_QSUB, <<>> >>,
     <<LOGS_QSUB, <<Join(AnalysisDir, BAM_DD)>> >>}
DirLookups == {BAM_DD, NO_STEP}
FileLookups == {"targets_bed", NO_STEP}

InitSession ==
    /\ disk \in SessionDisks
    /\ analysis_output_index = FullIndex
    /\ InitObject

NextSession ==
    \/ \E debug \in BOOLEAN : Construct(debug)
    \/ Validate
    \/ GetSamplesIDs
    \/ \E ids \in {<<>>, <<S1>>} : GetSamples(ids)
    \/ \E step \in {BAM_DD, NO_STEP} : GetOutputFiles(1, step, P_BAM)
    \/ \E w \in SetDirChoices : SetDir(w[1], w[2])
    \/ \E name \in DirLookups : GetDirs(name)
    \/ \E name \in FileLookups : GetFiles(name)
    \/ \E name \in DirLookups : ListNone(name)

SpecSession == InitSession /\ [][NextSession]_vars

\* ------------------------------------------------------------------ claims

AllChecks == {CheckOrder[i] : i \in 1..Len(CheckOrder)}

\* the error marker stands in the line at position i
MarkerAt(line, i) ==
    \A k \in 1..Len(Spelling[ERROR_MARK]) :
        /\ i + k - 1 <= Len(Spelling[line])
        /\ Spelling[line][i + k - 1] = Spelling[ERROR_MARK][k]

\* some line of some queue-log file on the disk holds the error marker
LogsHaveMarker ==
    \E f \in DOMAIN disk.logs : \E n \in 1..Len(disk.logs[f]) :
        \E i \in 1..Len(Spelling[disk.logs[f][n]]) : MarkerAt(disk.logs[f][n], i)

\* the identifiers of the summary rows with the error token in a data column
OffendingIds ==
    {disk.summary[i]["#SAMPLE"] : i \in
        {j \in 1..Len(disk.summary) :
            disk.summary[j]["lane"] = X \/ disk.summary[j]["reads"] = X}}

AllStaticFilesExist == disk.root /\ StaticFileNames \subseteq disk.rootFiles

\* the registry resolves the queue-log directory, and it holds a log file
QsubResolved == Len(get_items(dirs, LOGS_QSUB)) = 1
QsubHasFiles ==
    /\ QsubResolved
    /\ IsDir(disk, dirs[LOGS_QSUB][1])
    /\ FilesIn(disk, dirs[LOGS_QSUB][1][Len(dirs[LOGS_QSUB][1])]) # {}

StatusOf(v, check) == v[check].status

\* C1: a validating constructor over a root directory that does not exist
\* raises AnalysisItemMissing and yields no object, and no analysis whose root
\* does not exist has is_valid = true.
InvC1 ==
    /\ (ret.op = "construct" /\ ~ret.args[1] /\ ~disk.root)
          => (ret.exc = "AnalysisItemMissing" /\ pc = "failed")
    /\ (is_valid = <<TRUE>>) => disk.root

WitC1 ==
    /\ ret.op = "construct" /\ ~ret.args[1] /\ ~disk.root
    /\ ret.exc = "AnalysisItemMissing" /\ pc = "failed" /\ is_valid = Unset

\* C2 as stated: with the four static files present, no error marker in any
\* queue log and no error token in a data cell, validate() returns true with
\* four true entries.
OrigC2 ==
    (ret.op = "validate" /\ AllStaticFilesExist /\ ~LogsHaveMarker
        /\ OffendingIds = {})
      => /\ ret.exc = "" /\ ret.value = <<TRUE>>
         /\ DOMAIN validations = AllChecks
         /\ \A k \in AllChecks : StatusOf(validations, k)

\* C2 amended: the same, provided the registry resolves the queue-log
\* directory and that directory holds at least one log file.
InvC2 ==
    (ret.op = "validate" /\ AllStaticFilesExist /\ ~LogsHaveMarker
        /\ OffendingIds = {} /\ QsubHasFiles)
      => /\ ret.exc = "" /\ ret.value = <<TRUE>>
         /\ DOMAIN validations = AllChecks
         /\ \A k \in AllChecks : StatusOf(validations, k)

WitC2 ==
    /\ ret.op = "validate" /\ AllStaticFilesExist /\ ~LogsHaveMarker
    /\ OffendingIds = {} /\ QsubHasFiles
    /\ Cardinality(DOMAIN disk.logs) = 2
    /\ \A f \in DOMAIN disk.logs : Len(disk.logs[f]) >= 2
    /\ ret.value = <<TRUE>>

WithSettings(d) == [d EXCEPT !.rootFiles = @ \cup {F_SETTINGS}]

\* C3: on a root that lacks settings.txt, whenever validate() returns, the
\* four checks are all recorded, expected_static_files_exist is false, the
\* other three have the statuses they have with settings.txt present, and the
\* result is false; on a root that is sound otherwise it does return.
InvC3 ==
    (ret.op = "validate" /\ disk.root /\ F_SETTINGS \notin disk.rootFiles)
      => /\ (StaticFileNames \ {F_SETTINGS} \subseteq disk.rootFiles
               /\ QsubHasFiles /\ ~LogsHaveMarker /\ OffendingIds = {})
             => /\ ret.exc = ""
                /\ \A k \in AllChecks \ {"expected_static_files_exist"} :
                       StatusOf(validations, k)
         /\ ret.exc = ""
             => /\ ret.value = <<FALSE>>
                /\ DOMAIN validations = AllChecks
                /\ ~StatusOf(validations, "expected_static_files_exist")
                /\ \A k \in AllChecks \ {"expected_static_files_exist"} :
                       StatusOf(validations, k)
                         = StatusOf(validate(WithSettings(disk), dirs,
                                             static_files).validations, k)

WitC3 ==
    /\ ret.op = "validate" /\ disk.root /\ F_SETTINGS \notin disk.rootFiles
    /\ StaticFileNames \ {F_SETTINGS} \subseteq disk.rootFiles
    /\ QsubHasFiles /\ ~LogsHaveMarker /\ OffendingIds = {}
    /\ ret.value = <<FALSE>>
    /\ StatusOf(validations, "no_summary_combined_errors")

\* C4: when the registry does not resolve the queue-log directory, validate()
\* raises AnalysisItemMissing, check 4 is not started, and validations holds
\* the entries of checks 1 and 2 only.
InvC4 ==
    (ret.op = "validate" /\ ~QsubResolved)
      => /\ ret.exc = "AnalysisItemMissing"
         /\ ret.value = <<>>
         /\ ret.ran = SubSeq(CheckOrder, 1, 3)
         /\ DOMAIN validations = {CheckOrder[1], CheckOrder[2]}
         /\ logged.summary = {}

WitC4 ==
    /\ ret.op = "validate" /\ ~QsubResolved
    /\ ret.exc = "AnalysisItemMissing"
    /\ OffendingIds # {}
    /\ DOMAIN validations = {"dir_exists", "expected_static_files_exist"}

SummaryPath == Join(AnalysisDir, F_SUMMARY)
SummaryNote ==
    [text |-> "Whether or not entries are present in the summary combined file",
     items |-> {}]

\* C5 as stated: when a summary row holds the error token in a data column,
\* the check no_summary_combined_errors is false and its note lists the
\* identifier of every offending row.
OrigC5 ==
    (ret.op = "validate" /\ ret.exc = "" /\ OffendingIds # {}
        /\ static_files = expected_static_files)
      => /\ ~StatusOf(validations, "no_summary_combined_errors")
         /\ OffendingIds \subseteq
                validations["no_summary_combined_errors"].note.items

\* C5 amended: the check is false exactly when some row holds the error token,
\* whole, in a data column; the identifiers of exactly those rows go to the
\* logger's warning, and the note in validations is the fixed description.
InvC5 ==
    (ret.op = "validate" /\ ret.exc = ""
        /\ static_files = expected_static_files)
      => /\ StatusOf(validations, "no_summary_combined_errors")
                = (OffendingIds = {})
         /\ logged.summary = OffendingIds
         /\ validations["no_summary_combined_errors"].note = SummaryNote

WitC5 ==
    /\ ret.op = "validate" /\ ret.exc = ""
    /\ OffendingIds = {S2}
    /\ \E i \in 1..Len(disk.summary) :
           disk.summary[i]["#SAMPLE"] = X /\ disk.summary[i]["lane"] = C_XX
    /\ ~StatusOf(validations, "no_summary_combined_errors")
    /\ logged.summary = {S2}

QsubIsLogsDir == get_items(dirs, LOGS_QSUB) = <<Join(AnalysisDir, LOGS_QSUB)>>

\* C6 as stated: the queue-log check is false exactly when some line of some
\* log file holds the error marker, and then validate() returns false.
OrigC6 ==
    (ret.op = "validate" /\ QsubIsLogsDir
        /\ "no_qsub_log_errors_present" \in DOMAIN validations)
      => /\ ~StatusOf(validations, "no_qsub_log_errors_present")
                = LogsHaveMarker
         /\ ~StatusOf(validations, "no_qsub_log_errors_present")
                => (ret.exc = "" /\ ret.value = <<FALSE>>)

\* C6 amended: the queue-log check is false exactly when some line of some
\* log file holds the error marker, and then validate() never returns true:
\* it returns false, unless check 4 raises, which ends validate() with that
\* exception.
InvC6 ==
    (ret.op = "validate" /\ QsubIsLogsDir
        /\ "no_qsub_log_errors_present" \in DOMAIN validations)
      => /\ ~StatusOf(validations, "no_qsub_log_errors_present")
                = LogsHaveMarker
         /\ ~StatusOf(validations, "no_qsub_log_errors_present")
                => /\ ret.value # <<TRUE>>
                   /\ ret.exc = "" => ret.value = <<FALSE>>
                   /\ ret.exc # ""
                        => /\ ret.ran = CheckOrder
                           /\ "no_summary_combined_errors"
                                  \notin DOMAIN validations
                           /\ ~IsFile(disk, SummaryPath)

WitC6 ==
    /\ ret.op = "validate" /\ ret.value = <<FALSE>>
    /\ F_LOG_A \in DOMAIN disk.logs /\ F_LOG_B \in DOMAIN disk.logs
    /\ disk.logs[F_LOG_A] = <<L_CLEAN, L_CLEAN>>
    /\ disk.logs[F_LOG_B] = <<L_CLEAN, L_ERROR>>
    /\ \A k \in AllChecks \ {"no_qsub_log_errors_present"} :
           StatusOf(validations, k)
    /\ ~StatusOf(validations, "no_qsub_log_errors_present")

\* the first-column values of a manifest
FirstColumns(manifest) == {manifest[i][1] : i \in 1..Len(manifest)}

\* the manifest with its rows in every order
Reordered(manifest) ==
    {[i \in 1..Len(manifest) |-> manifest[p[i]]] :
        p \in Permutations(1..Len(manifest))}

\* C7: get_samplesIDs_from_samples_fastq_raw returns exactly the distinct
\* first-column values of the manifest rows, each once, and every list it can
\* return, on this manifest or on the manifest with its rows in any other
\* order, holds the same set.
InvC7 ==
    (ret.op = "get_samplesIDs" /\ ret.exc = ""
        /\ static_files = expected_static_files)
      => /\ Range(ret.value) = FirstColumns(disk.manifest)
         /\ Len(ret.value) = Cardinality(FirstColumns(disk.manifest))
         /\ \A m \in Reordered(disk.manifest) :
              \A again \in get_samplesIDs_from_samples_fastq_raw(
                               [disk EXCEPT !.manifest = m], static_files, None).val :
                  Range(again) = Range(ret.value)

WitC7 ==
    /\ ret.op = "get_samplesIDs" /\ ret.exc = ""
    /\ disk.manifest = << <<S1>>, <<S2, F_S2_BAM>>, <<S1>> >>
    /\ ret.value = <<S2, S1>>

\* the child directories of the root a schema key stands for
DirsFor(key) ==
    {n \in disk.subdirs : key = n \/ (key = BAM_ANY /\ n \in {BAM_DD, BAM_RA})}

\* C8: after construction the directories registry holds an entry for every
\* schema key but '_parent': empty when no child directory of the root
\* matches, one matching child otherwise, and the key's own directory when
\* that exists; '_parent' has no entry.
InvC8 ==
    (ret.op = "construct" /\ pc = "ready")
      => /\ \A key \in analysis_output_index \ {PARENT} :
               /\ key \in DOMAIN dirs
               /\ Len(dirs[key]) <= 1
               /\ (DirsFor(key) = {}) = (dirs[key] = <<>>)
               /\ dirs[key] # <<>>
                    => \E n \in DirsFor(key) : dirs[key] = <<Join(AnalysisDir, n)>>
               /\ key \in disk.subdirs => dirs[key] = <<Join(AnalysisDir, key)>>
         /\ PARENT \notin DOMAIN dirs
         /\ get_items(dirs, PARENT) = <<>>

WitC8 ==
    /\ ret.op = "construct" /\ pc = "ready"
    /\ analysis_output_index = SchemaKeys
    /\ disk.subdirs = {PARENT, LOGS_QSUB, BAM_RA}
    /\ dirs[BAM_DD] = <<>>
    /\ dirs[BAM_ANY] = <<Join(AnalysisDir, BAM_RA)>>
    /\ dirs[LOGS_QSUB] = <<Join(AnalysisDir, LOGS_QSUB)>>

StartsWith(name, id) ==
    /\ Len(Spelling[id]) <= Len(Spelling[name])
    /\ SubSeq(Spelling[name], 1, Len(Spelling[id])) = Spelling[id]

EndsWith(name, suffix) ==
    /\ Len(suffix) <= Len(Spelling[name])
    /\ SubSeq(Spelling[name], Len(Spelling[name]) - Len(suffix) + 1,
              Len(Spelling[name])) = suffix

\* what the caller's pattern asks of a file name
Asked(pattern, name) ==
    pattern = P_ALL \/ (pattern = P_BAM /\ EndsWith(name, <<".", "b", "a", "m">>))

\* the files of a directory that a sample's lookup is to return
Expected(dir, id, pattern) ==
    {Join(dir, f) : f \in {g \in FilesIn(disk, dir[Len(dir)]) :
                              StartsWith(g, id) /\ Asked(pattern, g)}}

\* C9: with the step directory resolved, get_output_files(step, pattern) of
\* the sample with id I returns exactly the files of that directory whose
\* names match the pattern and begin with I, each once; with S1.bam and
\* S2.bam present, id S1 and *.bam yield exactly S1.bam.
InvC9 ==
    (ret.op = "get_output_files" /\ ret.exc = "")
      => /\ Range(ret.value)
               = Expected(dirs[ret.args[2]][1], samples[ret.args[1]].id, ret.args[3])
         /\ Len(ret.value) = Cardinality(Range(ret.value))
         /\ (/\ disk.stepFiles = {F_S1_BAM, F_S2_BAM}
             /\ samples[ret.args[1]].id = S1
             /\ ret.args[2] = BAM_DD /\ ret.args[3] = P_BAM)
              => ret.value = <<Join(Join(AnalysisDir, BAM_DD), F_S1_BAM)>>

WitC9 ==
    /\ ret.op = "get_output_files" /\ ret.exc = ""
    /\ disk.stepFiles = StepFileNames
    /\ samples[ret.args[1]].id = S1
    /\ ret.args[2] = BAM_DD /\ ret.args[3] = P_BAM
    /\ Range(ret.value) = {Join(Join(AnalysisDir, BAM_DD), F_S1_BAM),
                           Join(Join(AnalysisDir, BAM_DD), F_S12_BAM)}

\* C10: a call of get_output_files for a step whose registry entry is empty
\* or absent raises AnalysisItemMissing and returns nothing; a call for a
\* step whose directory is resolved raises nothing, and returns the empty
\* sequence when no file of the directory matches.
PropC10 ==
    [][ret'.op = "get_output_files"
         => /\ get_items(dirs, ret'.args[2]) = <<>>
                 => (ret'.exc = "AnalysisItemMissing" /\ ret'.value = <<>>)
            /\ Len(get_items(dirs, ret'.args[2])) = 1
                 => /\ ret'.exc = ""
                    /\ (Expected(dirs[ret'.args[2]][1],
                                 samples[ret'.args[1]].id, ret'.args[3]) = {})
                         = (ret'.value = <<>>)]_vars

WitC10 ==
    /\ ret.op = "get_output_files" /\ ret.exc = "" /\ ret.value = <<>>
    /\ ret.args[2] = BAM_DD
    /\ dirs[BAM_DD] = <<Join(AnalysisDir, BAM_DD)>>
    /\ disk.stepFiles = {F_S2_BAM, F_S1_TXT}
    /\ samples[ret.args[1]].id = S1
    /\ ret.args[3] = P_BAM

\* what a sample's lookup gives when the step is resolved in the registry snap
LookupIn(snap, sample, analysis_step, pattern) ==
    IF list_none(get_items(snap, analysis_step)) = None
    THEN [exc |-> "AnalysisItemMissing", val |-> <<>>]
    ELSE [exc |-> "",
          val |-> Find(disk, list_none(get_items(snap, analysis_step)),
                       <<pattern, sample.search_pattern>>, <<>>, "file", 0, -1, "all")]

\* C11: a sample is a one-time copy. When samples are built their dirs and
\* files keys are among the parent's; no later operation changes a built
\* sample; and get_output_files resolves the step as the sample's own copy of
\* the directories registry has it, whatever the parent's registry holds by then.
OrigC11 ==
    [][/\ (ret'.op = "get_samples" /\ ret'.exc = "")
             => \A i \in 1..Len(samples') :
                    /\ DOMAIN samples'[i].dirs \subseteq DOMAIN dirs'
                    /\ DOMAIN samples'[i].files \subseteq DOMAIN files'
                    /\ samples'[i].static_files = static_files'
       /\ ret'.op # "get_samples" => samples' = samples
       /\ ret'.op = "get_output_files"
             => /\ ret'.exc = LookupIn(samples[ret'.args[1]].dirs, samples[ret'.args[1]],
                                       ret'.args[2], ret'.args[3]).exc
                /\ ret'.value = LookupIn(samples[ret'.args[1]].dirs, samples[ret'.args[1]],
                                         ret'.args[2], ret'.args[3]).val]_vars

\* C12: a constructor in debug mode runs no check and leaves is_valid unset;
\* a constructor without debug mode runs validate() over the resolved
\* registries and, when that returns, keeps its boolean, the conjunction of
\* the four recorded statuses, as is_valid.
InvC12 ==
    ret.op = "construct"
      => /\ ret.args[1]
              => /\ pc = "ready" /\ ret.exc = ""
                 /\ is_valid = Unset
                 /\ validations = NoValidations
                 /\ ret.ran = <<>>
                 /\ logged = NoLog
         /\ (~ret.args[1] /\ pc = "ready")
              => /\ ret.ran = CheckOrder
                 /\ DOMAIN validations = AllChecks
                 /\ is_valid = <<\A k \in AllChecks : StatusOf(validations, k)>>
                 /\ dirs = _init_dirs(disk, analysis_output_index)
                 /\ static_files = expected_static_files
         /\ (~ret.args[1] /\ pc = "failed")
              => /\ ret.exc # "" /\ ret.ran # <<>>
                 /\ is_valid = Unset

WitC12 ==
    /\ ret.op = "construct" /\ ret.args[1]
    /\ pc = "ready"
    /\ LogsHaveMarker /\ F_SETTINGS \notin disk.rootFiles
    /\ is_valid = Unset /\ validations = NoValidations

\* C13: get_samples returns one sample per identifier of the collection it
\* iterates, in that order: the list passed, or, when none is passed, a list
\* of the distinct first-column values of the manifest, each once. Every
\* sample carries its id, the search pattern "<id>*" and the parent's
\* analysis id, results id and directory.
InvC13 ==
    (ret.op = "get_samples" /\ ret.exc = "")
      => /\ Len(samples) = Len(ret.value)
         /\ \A i \in 1..Len(samples) :
               /\ samples[i].id = ret.value[i]
               /\ Spelling[samples[i].search_pattern]
                      = Spelling[samples[i].id] \o <<"*">>
               /\ samples[i].analysis_id = ANALYSIS_ID
               /\ samples[i].results_id = RESULTS_ID
               /\ samples[i].analysis_dir = AnalysisDir
         /\ ret.args[1] # <<>> => ret.value = ret.args[1]
         /\ (ret.args[1] = <<>> /\ static_files = expected_static_files)
              => /\ Range(ret.value) = FirstColumns(disk.manifest)
                 /\ Len(samples) = Cardinality(FirstColumns(disk.manifest))

WitC13 ==
    /\ ret.op = "get_samples" /\ ret.exc = "" /\ ret.args[1] = <<>>
    /\ disk.manifest = << <<S1>>, <<S2, F_S2_BAM>>, <<S1>> >>
    /\ Len(samples) = 2
    /\ samples[1].id = S2 /\ samples[2].id = S1

\* C14: a registry lookup never raises and returns a sequence, the entry of
\* the name when it has one and the empty sequence when it has none; list_none
\* returns the single path of a one-element sequence, and None for the empty
\* sequence and for a sequence of two or more paths.
InvC14 ==
    /\ ret.op = "get_dirs"
         => /\ ret.exc = ""
            /\ DOMAIN ret.value = 1..Len(ret.value)
            /\ ret.args[1] \in DOMAIN dirs => ret.value = dirs[ret.args[1]]
            /\ ret.args[1] \notin DOMAIN dirs => ret.value = <<>>
    /\ ret.op = "get_files"
         => /\ ret.exc = ""
            /\ DOMAIN ret.value = 1..Len(ret.value)
            /\ ret.args[1] \in DOMAIN files => ret.value = files[ret.args[1]]
            /\ ret.args[1] \notin DOMAIN files => ret.value = <<>>
    /\ ret.op = "list_none"
         => /\ ret.exc = ""
            /\ Len(ret.args[1]) = 1 => ret.value = <<ret.args[1][1]>>
            /\ Len(ret.args[1]) = 0 => ret.value = <<None>>
            /\ Len(ret.args[1]) >= 2 => ret.value = <<None>>

WitC14 ==
    /\ ret.op = "list_none"
    /\ ret.args[1] = <<Join(AnalysisDir, BAM_DD), Join(AnalysisDir, LOGS_QSUB)>>
    /\ ret.value = <<None>>
    /\ NO_STEP \notin DOMAIN dirs

ManifestPath == Join(AnalysisDir, F_FASTQ)

\* C15: a required file missing from the disk is signalled as
\* AnalysisItemMissing and as nothing else: by
\* get_samplesIDs_from_samples_fastq_raw when the raw-fastq manifest is
\* missing, and by validate() at check 4 when the combined summary is missing.
OrigC15 ==
    /\ (ret.op = "get_samplesIDs" /\ static_files = expected_static_files
           /\ ~IsFile(disk, ManifestPath))
         => ret.exc = "AnalysisItemMissing"
    /\ (ret.op = "validate" /\ static_files = expected_static_files
           /\ ret.ran = CheckOrder /\ ~IsFile(disk, SummaryPath))
         => ret.exc = "AnalysisItemMissing"

\* C16: no operation of a sample changes the parent: building the samples and
\* every call of get_output_files, one that raises AnalysisItemMissing for a
\* step the directories registry does not hold included, leave the parent's
\* dirs, files and static_files as they were, keys and values.
OrigC16 ==
    [][ret'.op \in {"get_samples", "get_output_files"}
          => /\ dirs' = dirs
             /\ files' = files
             /\ static_files' = static_files]_vars

\* the checks validate() recorded before it returned or raised
Recorded(run) ==
    IF run.exc = "" THEN Range(run.ran) ELSE Range(SubSeq(run.ran, 1, Len(run.ran) - 1))

\* C17: validate() never writes is_valid. Only the constructor assigns it, and
\* only without debug mode; a call of validate() replaces validations by the
\* entries of the checks of this call alone and returns the conjunction of
\* their statuses, or raises; the samples are handed the is_valid the
\* constructor kept, whatever later calls of validate() returned.
PropC17 ==
    [][/\ ret'.op # "construct" => is_valid' = is_valid
       /\ (ret'.op = "construct" /\ ret'.args[1]) => is_valid' = Unset
       /\ ret'.op = "validate"
            => /\ DOMAIN validations' = Recorded(ret')
               /\ ret'.exc = ""
                    => /\ Recorded(ret') = AllChecks
                       /\ ret'.value
                            = <<\A k \in AllChecks : StatusOf(validations', k)>>
       /\ (ret'.op = "get_samples" /\ ret'.exc = "")
            => \A i \in 1..Len(samples') :
                   samples'[i].analysis_is_valid = is_valid[1]]_vars

WitC17 ==
    /\ ret.op = "validate" /\ ret.exc = "" /\ ret.value = <<TRUE>>
    /\ is_valid = <<FALSE>>
    /\ Len(samples) = 1 /\ samples[1].analysis_is_valid = FALSE

====
